---- MODULE Spec2Model ----
(***************************************************************************)
(* Gutter renderers of helix-view (src/helix-view/src/gutter.rs).          *)
(*                                                                         *)
(* A gutter is bound once against (editor, doc, view, theme, is_focused,   *)
(* width) and the closure it returns is then invoked once per line with    *)
(* (line, selected, out).  The compositor binds one gutter at a time,      *)
(* calls it for the visible lines and then binds the next one, so the      *)
(* state holds one bound closure: its kind, the values it captured, the    *)
(* arguments it was bound against and the last invocation.                 *)
(*                                                                         *)
(* A string is the sequence of its runs, [ch, n] being n times the         *)
(* character ch, no two neighbouring runs of the same character.  The      *)
(* three glyphs are written by their code points: "U+25CF" is the filled   *)
(* circle, "U+25B2" the filled triangle, "U+229A" the hollow ring.  Each   *)
(* is one column.                                                          *)
(*                                                                         *)
(* A usize is 64 bits wide.  It is written as three limbs <<h, m, l>> of   *)
(* nine decimal digits each, h * 10^18 + m * 10^9 + l.                     *)
(***************************************************************************)
EXTENDS Integers, Sequences, FiniteSets, TLC

VARIABLES kind, status, env, cap, call

vars == <<kind, status, env, cap, call>>

\* ------------------------------------------------------------------ bounds

\* Longest document text, in bytes.
MaxLen == 2
\* Queried lines are 0..MaxLine, FarLine and usize::MAX.
MaxLine == 2
\* A queried line far below the document, whose number has several digits.
FarLine == 99
\* Gutter widths are 1..MaxWidth and WideWidth.
MaxWidth == 2
\* A width above u16::MAX, the widest the formatter of a recent std accepts.
WideWidth == 65536
\* Longest diagnostics / breakpoints list.
MaxMarks == 2
\* ------------------------------------------------------------------ usize

Limb == 10 ^ 9

\* The usize of a number below 10^9.
U(n) == <<0, 0, n>>

\* usize::MAX = 2^64 - 1 = 18446744073709551615.
UsizeMax == <<18, 446744073, 709551615>>

\* a < b
ULess(a, b) ==
    \/ a[1] < b[1]
    \/ a[1] = b[1] /\ a[2] < b[2]
    \/ a[1] = b[1] /\ a[2] = b[2] /\ a[3] < b[3]

\* a + 1, as a number: one above usize::MAX is not a usize.
UAdd1(a) ==
    IF a[3] + 1 < Limb THEN <<a[1], a[2], a[3] + 1>>
    ELSE IF a[2] + 1 < Limb THEN <<a[1], a[2] + 1, 0>>
    ELSE <<a[1] + 1, 0, 0>>

\* a - b for a >= b.
USub(a, b) ==
    LET b3 == IF a[3] < b[3] THEN 1 ELSE 0
        l == a[3] + (b3 * Limb) - b[3]
        b2 == IF a[2] - b3 < b[2] THEN 1 ELSE 0
        m == a[2] - b3 + (b2 * Limb) - b[2]
    IN  <<a[1] - b2 - b[1], m, l>>

\* ------------------------------------------------------------------ inputs

\* The closure takes any usize as line, and the bind any usize as width.
Lines == {U(n) : n \in 0 .. MaxLine} \cup {U(FarLine), UsizeMax}
Widths == (1 .. MaxWidth) \cup {WideWidth}
\* The widths given to the two gutters that do not read their width.
MarkWidths == {1, MaxWidth}
\* Diagnostics and breakpoints sit on these lines.
MarkLines == {U(0), U(1)}
\* The lines the diagnostic and breakpoint gutters are queried for: those, and two
\* that have no mark.
MarkQueries == MarkLines \cup {U(FarLine), UsizeMax}

\* What the build decides: whether usize arithmetic is compiled with overflow
\* checks, and whether the formatter of its std takes a width as a u16 and panics
\* on a larger one (or as a usize, and pads).
Builds == [overflow_checks : BOOLEAN, width_u16 : BOOLEAN]

\* ---------------------------------------------------------------- strings

Run(c, k) == IF k = 0 THEN << >> ELSE <<[ch |-> c, n |-> k]>>

\* a followed by b.
Cat(a, b) ==
    IF a = << >> THEN b
    ELSE IF b = << >> THEN a
    ELSE IF a[Len(a)].ch = b[1].ch
    THEN SubSeq(a, 1, Len(a) - 1) \o Run(b[1].ch, a[Len(a)].n + b[1].n) \o Tail(b)
    ELSE a \o b

\* The string of a sequence of characters.
RECURSIVE Str(_)
Str(chars) ==
    IF chars = << >> THEN << >>
    ELSE Cat(Str(SubSeq(chars, 1, Len(chars) - 1)), Run(chars[Len(chars)], 1))

\* Number of characters (each one column).
RECURSIVE Columns(_)
Columns(s) == IF s = << >> THEN 0 ELSE s[1].n + Columns(Tail(s))

\* What the output buffer holds when a closure is invoked.
PriorOuts == {Str(<<"x">>)}

\* ------------------------------------------------------- graphics (Style)

NoColor == [tag |-> "None", r |-> 0, g |-> 0, b |-> 0]

Named(t) == [tag |-> t, r |-> 0, g |-> 0, b |-> 0]

Rgb(r, g, b) == [tag |-> "Rgb", r |-> r, g |-> g, b |-> b]

Gray == Named("Gray")

MkStyle(fg, bg, mods) == [fg |-> fg, bg |-> bg, mods |-> mods]

DefaultStyle == MkStyle(NoColor, NoColor, {})

\* Style::add_modifier
add_modifier(style, m) == [style EXCEPT !.mods = @ \cup {m}]

\* Style::fg
set_fg(style, color) == [style EXCEPT !.fg = color]

\* Option<Style>
NoneStyle == [some |-> FALSE, style |-> DefaultStyle]

SomeStyle(s) == [some |-> TRUE, style |-> s]

\* ------------------------------------------------------------------ theme

StyleNames == {"warning", "error", "info", "hint", "ui.linenr", "ui.linenr.selected"}

\* A theme with RGB foregrounds.
ThemeRgb ==
    [n \in StyleNames |->
        CASE n = "warning" -> SomeStyle(MkStyle(Rgb(255, 254, 0), NoColor, {}))
          [] n = "error" -> SomeStyle(MkStyle(Rgb(200, 50, 50), Rgb(9, 9, 9), {"BOLD"}))
          [] n = "info" -> SomeStyle(MkStyle(Rgb(1, 4, 129), NoColor, {}))
          [] n = "hint" -> SomeStyle(MkStyle(Rgb(0, 255, 3), NoColor, {}))
          [] n = "ui.linenr" -> SomeStyle(MkStyle(Rgb(90, 90, 90), NoColor, {}))
          [] OTHER -> SomeStyle(MkStyle(Rgb(250, 250, 250), NoColor, {"BOLD"}))]

\* A theme with named, indexed-like and absent foregrounds.
ThemeNamed ==
    [n \in StyleNames |->
        CASE n = "warning" -> SomeStyle(MkStyle(NoColor, Named("Yellow"), {}))
          [] n = "error" -> SomeStyle(MkStyle(Named("Red"), Named("Black"), {"UNDERLINED"}))
          [] n = "info" -> SomeStyle(MkStyle(Named("Blue"), NoColor, {"ITALIC"}))
          [] n = "hint" -> SomeStyle(MkStyle(Named("Green"), NoColor, {}))
          [] n = "ui.linenr" -> SomeStyle(MkStyle(Named("Gray"), NoColor, {}))
          [] OTHER -> NoneStyle]

Without(theme, name) == [theme EXCEPT ![name] = NoneStyle]

\* The themes a gutter is bound against: the two above, and ThemeRgb with one of
\* the names the gutter reads taken out.
ThemesFor(names) == {ThemeRgb, ThemeNamed} \cup {Without(ThemeRgb, n) : n \in names}

\* Theme::try_get: the entry, if the theme has one.
try_get(theme, name) == theme[name]

\* Theme::get: the entry of a required name; Missing(theme, name) aborts the bind.
Missing(theme, name) == ~ theme[name].some

get(theme, name) == theme[name].style

\* ----------------------------------------------------------- text (Rope)

Chars == {"a", "\n"}

RECURSIVE SeqsUpTo(_, _)
SeqsUpTo(S, n) ==
    IF n = 0 THEN {<< >>}
    ELSE LET shorter == SeqsUpTo(S, n - 1)
         IN  shorter \cup {Append(s, x) : s \in {t \in shorter : Len(t) = n - 1}, x \in S}

Texts == SeqsUpTo(Chars, MaxLen)

LineBreaks(text) == {i \in 1 .. Len(text) : text[i] = "\n"}

len_bytes(text) == Len(text)

len_lines(text) == Cardinality(LineBreaks(text)) + 1

\* Byte offset of the start of a line; the line one past the last starts at the end.
line_to_byte(text, line) ==
    IF line = 0 THEN 0
    ELSE IF line >= len_lines(text) THEN Len(text)
    ELSE CHOOSE i \in LineBreaks(text) :
            Cardinality({j \in LineBreaks(text) : j <= i}) = line

\* Line of the character at a 0-based index (all characters are one byte here).
char_to_line(text, idx) == Cardinality({i \in LineBreaks(text) : i <= idx})

\* ---------------------------------------------------- marks (doc, editor)

Severities == {"None", "Error", "Warning", "Info", "Hint"}

Diagnostics == [line : MarkLines, severity : Severities]

Breakpoints == [line : MarkLines, verified : BOOLEAN, condition : BOOLEAN, log_message : BOOLEAN]

DiagnosticLists == SeqsUpTo(Diagnostics, MaxMarks)

BreakpointLists == SeqsUpTo(Breakpoints, MaxMarks)

\* editor.breakpoints.get(path): the list recorded for the document's path, if any.
NoEntry == [some |-> FALSE, list |-> << >>]

StoreEntries == {NoEntry} \cup {[some |-> TRUE, list |-> l] : l \in BreakpointLists}

\* Mutant of FindFirst: a later mark on the line replaces an earlier one.
FindLast(marks, line) ==
    IF \E i \in 1 .. Len(marks) : marks[i].line = line
    THEN CHOOSE i \in 1 .. Len(marks) :
            /\ marks[i].line = line
            /\ \A j \in (i + 1) .. Len(marks) : marks[j].line # line
    ELSE 0

\* iter().find(|m| m.line == line): index of the first mark on the line, 0 if none.
FindFirst(marks, line) ==
    IF \E i \in 1 .. Len(marks) : marks[i].line = line
    THEN CHOOSE i \in 1 .. Len(marks) :
            /\ marks[i].line = line
            /\ \A j \in 1 .. (i - 1) : marks[j].line # line
    ELSE 0

\* ------------------------------------------------------------- formatting

DigitChars == <<"0", "1", "2", "3", "4", "5", "6", "7", "8", "9">>

\* The digits of a number below 10^9, without leading zeros.
RECURSIVE DecimalDigits(_)
DecimalDigits(n) ==
    IF n < 10 THEN <<DigitChars[n + 1]>>
    ELSE DecimalDigits(n \div 10) \o <<DigitChars[(n % 10) + 1]>>

\* The nine digits of a limb.
LimbDigits(n) ==
    LET d == DecimalDigits(n)
    IN  [i \in 1 .. (9 - Len(d)) |-> "0"] \o d

\* Display of a usize.
Decimal(u) ==
    Str(IF u[1] > 0 THEN DecimalDigits(u[1]) \o LimbDigits(u[2]) \o LimbDigits(u[3])
        ELSE IF u[2] > 0 THEN DecimalDigits(u[2]) \o LimbDigits(u[3])
        ELSE DecimalDigits(u[3]))

Spaces(n) == Run(" ", n)

\* Mutant of PadLeft: no padding.
PadLeftNone(s, width) == s

\* "{:>1$}": right-aligned in at least `width` columns, never truncated.
PadLeft(s, width) ==
    IF Columns(s) >= width THEN s ELSE Cat(Spaces(width - Columns(s)), s)

\* "{:>1$}" with a width above u16::MAX: a std whose formatter takes the width as
\* a u16 panics ("Formatting argument out of range") before anything is written.
FormatPanics(build, width) == build.width_u16 /\ width > (2 ^ 16) - 1

\* ------------------------------------------------------------ the state

EmptyEnv ==
    [theme |-> ThemeRgb, width |-> 0, is_focused |-> FALSE, diagnostics |-> << >>,
     text |-> << >>, cursor |-> 0, view_last_line |-> 0, config |-> "Absolute",
     has_path |-> FALSE, store |-> NoEntry]

EmptyCap ==
    [warning |-> DefaultStyle, error |-> DefaultStyle, info |-> DefaultStyle,
     hint |-> DefaultStyle, diagnostics |-> << >>, breakpoints |-> << >>,
     last_line |-> U(0), draw_last |-> FALSE, linenr |-> DefaultStyle,
     linenr_select |-> DefaultStyle, current_line |-> U(0), config |-> "Absolute",
     is_focused |-> FALSE, width |-> 0]

NoCall ==
    [made |-> FALSE, line |-> U(0), selected |-> FALSE, before |-> << >>, out |-> << >>,
     ret |-> NoneStyle]

Init ==
    /\ kind = "none"
    /\ status = "unbound"
    /\ env = EmptyEnv
    /\ cap = EmptyCap
    /\ call = NoCall

\* ------------------------------------------------------- diagnostic gutter

\* What the closure of `diagnostic` captures (lines 20-24).
diagnostic(theme, diagnostics) ==
    [EmptyCap EXCEPT !.warning = get(theme, "warning"), !.error = get(theme, "error"),
                     !.info = get(theme, "info"), !.hint = get(theme, "hint"),
                     !.diagnostics = diagnostics]

\* The match on the diagnostic's severity (lines 30-35).
SeverityStyle(c, severity) ==
    CASE severity = "Error" -> c.error
      [] severity \in {"Warning", "None"} -> c.warning
      [] severity = "Info" -> c.info
      [] severity = "Hint" -> c.hint

\* Mutant of diagnostic_fn: the glyph is written before the search.
diagnostic_fn_writes_first(c, line, selected, out) ==
    LET i == FindFirst(c.diagnostics, line)
    IN  IF i # 0
        THEN [panic |-> FALSE, out |-> Cat(out, Run("U+25CF", 1)),
              ret |-> SomeStyle(SeverityStyle(c, c.diagnostics[i].severity))]
        ELSE [panic |-> FALSE, out |-> Cat(out, Run("U+25CF", 1)), ret |-> NoneStyle]

\* The closure of `diagnostic` (lines 26-38).
diagnostic_fn(c, line, selected, out) ==
    LET i == FindFirst(c.diagnostics, line)
    IN  IF i # 0
        THEN [panic |-> FALSE, out |-> Cat(out, Run("U+25CF", 1)),
              ret |-> SomeStyle(SeverityStyle(c, c.diagnostics[i].severity))]
        ELSE [panic |-> FALSE, out |-> out, ret |-> NoneStyle]

\* ------------------------------------------------------ line number gutter

\* What the closure of `line_number` captures (lines 49-62).
line_number(config, text, cursor, view_last_line, theme, is_focused, width) ==
    [EmptyCap EXCEPT
        !.last_line = U(view_last_line),
        !.draw_last = line_to_byte(text, view_last_line) < len_bytes(text),
        !.linenr = get(theme, "ui.linenr"),
        !.linenr_select = IF try_get(theme, "ui.linenr.selected").some
                          THEN try_get(theme, "ui.linenr.selected").style
                          ELSE get(theme, "ui.linenr"),
        !.current_line = U(char_to_line(text, cursor)),
        !.config = config,
        !.is_focused = is_focused,
        !.width = width]

\* a - b in usize (lines 93 and 95): the value it leaves when it does not panic, and
\* whether it overflowed.  Below zero it wraps to 2^64 - (b - a).
Minus(a, b) ==
    IF ULess(a, b) THEN [overflow |-> TRUE, value |-> UAdd1(USub(UsizeMax, USub(b, a)))]
    ELSE [overflow |-> FALSE, value |-> USub(a, b)]

\* Mutant of abs_diff: the subtraction is not guarded by the comparison.
abs_diff_unguarded(a, b) == Minus(a, b)

\* abs_diff (lines 91-98).
abs_diff(a, b) == IF ULess(b, a) THEN Minus(a, b) ELSE Minus(b, a)

\* line + 1 (lines 71 and 74): the usize it leaves in `line` when it does not
\* panic, and whether it overflowed.  An overflowing addition wraps to 0 in a build
\* without overflow checks and panics in one with them.
AddOne(line) ==
    IF line = UsizeMax THEN [overflow |-> TRUE, value |-> U(0)]
    ELSE [overflow |-> FALSE, value |-> UAdd1(line)]

\* Mutant of DisplayNumber: Relative mode shows the distance on current_line too.
DisplayNumberDistanceOnly(c, line) ==
    IF c.config = "Absolute" THEN AddOne(line)
    ELSE abs_diff(c.current_line, line)

\* The number shown for a line (lines 70-79).
DisplayNumber(c, line) ==
    IF c.config = "Absolute" THEN AddOne(line)
    ELSE IF c.current_line = line THEN AddOne(line)
    ELSE abs_diff(c.current_line, line)

\* Mutant of LineStyle: the focus flag is not consulted.
LineStyleAnyFocus(c, selected) ==
    IF selected THEN c.linenr_select ELSE c.linenr

\* The style of a numbered line (lines 80-84).
LineStyle(c, selected) ==
    IF selected /\ c.is_focused THEN c.linenr_select ELSE c.linenr

\* Mutant of Elided: draw_last is not consulted.
ElidedAnyLastLine(c, line) == line = c.last_line

\* Whether the closure draws the placeholder for this line (line 65).
Elided(c, line) == line = c.last_line /\ ~ c.draw_last

\* The closure of `line_number` (lines 64-88) in a build.  A panic leaves the
\* buffer as it was.
line_number_fn(c, line, selected, out, build) ==
    LET panicked == [panic |-> TRUE, out |-> out, ret |-> NoneStyle]
    IN  IF Elided(c, line)
        THEN IF FormatPanics(build, c.width) THEN panicked
             ELSE [panic |-> FALSE, out |-> Cat(out, PadLeft(Run("~", 1), c.width)),
                   ret |-> SomeStyle(c.linenr)]
        ELSE LET n == DisplayNumber(c, line)
             IN  IF n.overflow /\ build.overflow_checks THEN panicked
                 ELSE IF FormatPanics(build, c.width) THEN panicked
                 ELSE [panic |-> FALSE,
                       out |-> Cat(out, PadLeft(Decimal(n.value), c.width)),
                       ret |-> SomeStyle(LineStyle(c, selected))]

\* ------------------------------------------------------ breakpoint gutter

\* What the closure of `breakpoints` captures (lines 108-115).
breakpoints(store, theme) ==
    [EmptyCap EXCEPT !.warning = get(theme, "warning"), !.error = get(theme, "error"),
                     !.info = get(theme, "info"), !.breakpoints = store.list]

\* doc.path().and_then(|path| editor.breakpoints.get(path)) is None (lines 112-115).
NoBreakpoints(has_path, store) == ~ has_path \/ ~ store.some

\* Mutant of BaseStyle: the case of both being set is missing.
BaseStyleNoBoth(c, bp) ==
    IF bp.condition THEN c.error
    ELSE IF bp.log_message THEN c.info
    ELSE c.warning

\* The style chosen from condition and log_message (lines 127-135).
BaseStyle(c, bp) ==
    IF bp.condition /\ bp.log_message THEN add_modifier(c.error, "UNDERLINED")
    ELSE IF bp.condition THEN c.error
    ELSE IF bp.log_message THEN c.info
    ELSE c.warning

\* Mutant of FadeChannel: rounds to the nearest integer.
FadeChannelRounded(x) == ((4 * x) + 5) \div 10

\* ((x as f32) * 0.4).floor() as u8 (lines 141-143).  0.4f32 is 13421773 / 2^25
\* (13421773 = 3276 * 4096 + 3277, 2^25 = 4096 * 8192); the exact product of a
\* channel 0..255 with it lies at least 0.2 below the next integer, so rounding the
\* product to f32 never changes its floor.
FadeChannel(x) == ((x * 3276) + ((x * 3277) \div 4096)) \div 8192

\* The faded style of an unverified breakpoint (lines 139-147).
Fade(style) ==
    IF style.fg.tag = "Rgb"
    THEN set_fg(style, Rgb(FadeChannel(style.fg.r), FadeChannel(style.fg.g),
                           FadeChannel(style.fg.b)))
    ELSE set_fg(style, Gray)

\* The glyph of a breakpoint (line 151).
Sym(bp) == IF bp.verified THEN "U+25B2" ELSE "U+229A"

\* The closure of `breakpoints` (lines 117-154).
breakpoints_fn(c, line, selected, out) ==
    LET i == FindFirst(c.breakpoints, line)
    IN  IF i = 0
        THEN [panic |-> FALSE, out |-> out, ret |-> NoneStyle]
        ELSE LET bp == c.breakpoints[i]
                 base == BaseStyle(c, bp)
                 style == IF ~ bp.verified THEN Fade(base) ELSE base
             IN  [panic |-> FALSE, out |-> Cat(out, Run(Sym(bp), 1)),
                  ret |-> SomeStyle(style)]

\* ---------------------------------------------------------------- actions

Bound(k, e, c) ==
    /\ kind' = k
    /\ status' = "bound"
    /\ env' = e
    /\ cap' = c
    /\ call' = NoCall

Aborted(k, e) ==
    /\ kind' = k
    /\ status' = "aborted"
    /\ env' = e
    /\ cap' = EmptyCap
    /\ call' = NoCall

\* diagnostic(editor, doc, view, theme, is_focused, width)
BindDiagnostic ==
    /\ status = "unbound"
    /\ \E theme \in ThemesFor({"warning", "error", "info", "hint"}), diagnostics \in DiagnosticLists,
          width \in MarkWidths :
          LET e == [EmptyEnv EXCEPT !.theme = theme, !.diagnostics = diagnostics,
                                    !.width = width]
          IN  IF \E n \in {"warning", "error", "info", "hint"} : Missing(theme, n)
              THEN Aborted("diagnostic", e)
              ELSE Bound("diagnostic", e, diagnostic(theme, diagnostics))

\* line_number(editor, doc, view, theme, is_focused, width)
BindLineNumber ==
    /\ status = "unbound"
    /\ \E theme \in ThemesFor({"ui.linenr", "ui.linenr.selected"}), text \in Texts,
          config \in {"Absolute", "Relative"}, is_focused \in BOOLEAN, width \in Widths :
          \E cursor \in 0 .. Len(text), view_last_line \in 0 .. (len_lines(text) - 1) :
             LET e == [EmptyEnv EXCEPT !.theme = theme, !.text = text, !.cursor = cursor,
                                       !.view_last_line = view_last_line,
                                       !.config = config, !.is_focused = is_focused,
                                       !.width = width]
             IN  IF Missing(theme, "ui.linenr")
                 THEN Aborted("line_number", e)
                 ELSE Bound("line_number", e,
                            line_number(config, text, cursor, view_last_line, theme,
                                        is_focused, width))

\* breakpoints(editor, doc, view, theme, is_focused, width)
BindBreakpoints ==
    /\ status = "unbound"
    /\ \E theme \in ThemesFor({"warning", "error", "info"}), has_path \in BOOLEAN,
          store \in StoreEntries, width \in MarkWidths :
          LET e == [EmptyEnv EXCEPT !.theme = theme, !.has_path = has_path,
                                    !.store = store, !.width = width]
          IN  IF \E n \in {"warning", "error", "info"} : Missing(theme, n)
              THEN Aborted("breakpoints", e)
              ELSE IF NoBreakpoints(has_path, store)
              THEN Aborted("breakpoints", e)
              ELSE Bound("breakpoints", e, breakpoints(store, theme))

\* One invocation of the bound closure with (line, selected, out).
Invoke(r, line, selected, before) ==
    /\ kind' = kind
    /\ env' = env
    /\ cap' = cap
    /\ call' = [made |-> TRUE, line |-> line, selected |-> selected, before |-> before,
                out |-> r.out, ret |-> r.ret]
    /\ status' = IF r.panic THEN "aborted" ELSE "bound"

CallDiagnostic ==
    /\ status = "bound" /\ kind = "diagnostic"
    /\ \E line \in MarkQueries, selected \in BOOLEAN, before \in PriorOuts :
          Invoke(diagnostic_fn(cap, line, selected, before), line, selected, before)

CallLineNumber ==
    /\ status = "bound" /\ kind = "line_number"
    /\ \E line \in Lines, selected \in BOOLEAN, before \in PriorOuts :
          \E r \in {line_number_fn(cap, line, selected, before, build) : build \in Builds} :
             Invoke(r, line, selected, before)

CallBreakpoints ==
    /\ status = "bound" /\ kind = "breakpoints"
    /\ \E line \in MarkQueries, selected \in BOOLEAN, before \in PriorOuts :
          Invoke(breakpoints_fn(cap, line, selected, before), line, selected, before)

\* The compositor drops the closure after the last line; the next gutter is bound
\* from scratch.
Drop ==
    /\ status = "bound"
    /\ kind' = "none"
    /\ status' = "unbound"
    /\ env' = EmptyEnv
    /\ cap' = EmptyCap
    /\ call' = NoCall

Next ==
    \/ BindDiagnostic
    \/ BindLineNumber
    \/ BindBreakpoints
    \/ CallDiagnostic
    \/ CallLineNumber
    \/ CallBreakpoints
    \/ Drop

Spec == Init /\ [][Next]_vars

\* ------------------------------------------- the fade over every channel

\* ThemeRgb with an error and a warning foreground that take every channel value.
FadeThemes ==
    {[ThemeRgb EXCEPT !["error"] = SomeStyle(MkStyle(Rgb(x, 255 - x, x \div 4),
                                                     Rgb(9, 9, 9), {"BOLD"})),
                      !["warning"] = SomeStyle(MkStyle(Rgb(255 - x, x, x), NoColor, {}))]
        : x \in 0 .. 255} \cup {ThemeRgb, ThemeNamed}

\* The breakpoint gutter bound against a document whose file has one breakpoint,
\* on line 0, under one of FadeThemes.
InitFade ==
    \E theme \in FadeThemes, bp \in {b \in Breakpoints : b.line = U(0)} :
        LET store == [some |-> TRUE, list |-> <<bp>>]
        IN  /\ kind = "breakpoints"
            /\ status = "bound"
            /\ env = [EmptyEnv EXCEPT !.theme = theme, !.has_path = TRUE,
                                      !.store = store, !.width = 1]
            /\ cap = breakpoints(store, theme)
            /\ call = NoCall

NextFade == CallBreakpoints

SpecFade == InitFade /\ [][NextFade]_vars

\* ------------------------------------------------------------------ claims

\* The last invocation returned (it did not panic).
Returned(k) == kind = k /\ status = "bound" /\ call.made

\* The last invocation panicked.
Panicked == status = "aborted" /\ call.made

\* The buffer still starts with what it held before the invocation.
KeepsPrior ==
    LET b == call.before
        o == call.out
        k == Len(b)
    IN  /\ Len(o) >= k
        /\ \A i \in 1 .. (k - 1) : o[i] = b[i]
        /\ k > 0 => (o[k].ch = b[k].ch /\ o[k].n >= b[k].n)

\* What the last invocation appended to the output buffer.
Suffix ==
    LET b == call.before
        o == call.out
        k == Len(b)
    IN  IF k = 0 THEN o
        ELSE Run(o[k].ch, o[k].n - b[k].n) \o SubSeq(o, k + 1, Len(o))

\* The characters of a string.
RECURSIVE Expand(_)
Expand(s) ==
    IF s = << >> THEN << >>
    ELSE [i \in 1 .. s[1].n |-> s[1].ch] \o Expand(Tail(s))

IsDigit(ch) == \E d \in 1 .. 10 : DigitChars[d] = ch

DigitValue(ch) == (CHOOSE d \in 1 .. 10 : DigitChars[d] = ch) - 1

RECURSIVE ParseDecimal(_)
ParseDecimal(d) ==
    IF d = << >> THEN 0
    ELSE ParseDecimal(SubSeq(d, 1, Len(d) - 1)) * 10 + DigitValue(d[Len(d)])

\* The number a numeral of at most 27 digits denotes, in limbs.
ParseLimbs(d) ==
    LET z == [i \in 1 .. (27 - Len(d)) |-> "0"] \o d
    IN  <<ParseDecimal(SubSeq(z, 1, 9)), ParseDecimal(SubSeq(z, 10, 18)),
          ParseDecimal(SubSeq(z, 19, 27))>>

\* s is the decimal numeral of u (no sign, no leading zero), left-padded with spaces
\* to at least w columns and never cut.
ShowsNumber(s, u, w) ==
    LET rest == IF s # << >> /\ s[1].ch = " " THEN Tail(s) ELSE s
    IN  /\ rest # << >>
        /\ Columns(rest) <= 27
        /\ LET d == Expand(rest)
           IN  /\ \A i \in 1 .. Len(d) : IsDigit(d[i])
               /\ Len(d) = 1 \/ d[1] # "0"
               /\ ParseLimbs(d) = u
               /\ Columns(s) = IF Len(d) > w THEN Len(d) ELSE w

\* s is the glyph g left-padded with spaces to w columns.
ShowsGlyph(s, g, w) ==
    /\ s # << >>
    /\ s[Len(s)] = [ch |-> g, n |-> 1]
    /\ Columns(s) = (IF w > 1 THEN w ELSE 1)
    /\ Len(s) = 1 \/ (Len(s) = 2 /\ s[1].ch = " ")

\* The bind saw an empty last line: the text ends where last_line starts.
LastLineEmpty == len_bytes(env.text) = line_to_byte(env.text, env.view_last_line)

\* The invocation was for the elided empty last line.
OnElidedLine == LastLineEmpty /\ call.line = U(env.view_last_line)

ThemeStyle(name) == env.theme[name].style

\* The invocation is one whose number is line + 1.
ShowsLinePlusOne == env.config = "Absolute" \/ call.line = cap.current_line

\* The number C1 expects for the queried line.
ExpectedNumber ==
    LET cur == cap.current_line
        l == call.line
    IN  IF ShowsLinePlusOne THEN UAdd1(l)
        ELSE IF ULess(l, cur) THEN USub(cur, l)
        ELSE USub(l, cur)

RECURSIVE DigitCount(_)
DigitCount(n) == IF n < 10 THEN 1 ELSE 1 + DigitCount(n \div 10)

\* Number of digits of a usize.
UDigitCount(u) ==
    IF u[1] > 0 THEN 18 + DigitCount(u[1])
    ELSE IF u[2] > 0 THEN 9 + DigitCount(u[2])
    ELSE DigitCount(u[3])

\* The queried line can be the index of a line of a document: an index is below the
\* document's line count, itself a usize.
IsLineIndex(line) == line # UsizeMax

\* The width is one the compositor can allocate: the digits of a line count, itself
\* a usize.
IsGutterWidth(width) == width <= UDigitCount(UsizeMax)

\* C1: a line-number invocation for a line (an index of a document line) that is not
\* the elided empty last line emits line+1 in Absolute mode; in Relative mode line+1
\* on current_line and the distance to current_line elsewhere; right-justified in
\* the width given at bind.
C1_LineNumberShown ==
    (Returned("line_number") /\ ~ OnElidedLine /\ IsLineIndex(call.line)) =>
        /\ cap.current_line = U(char_to_line(env.text, env.cursor))
        /\ KeepsPrior
        /\ ShowsNumber(Suffix, ExpectedNumber, env.width)

\* Relative mode, a line above current_line at distance one, padded to two columns.
C1_Witness ==
    /\ Returned("line_number")
    /\ ~ OnElidedLine
    /\ IsLineIndex(call.line)
    /\ env.config = "Relative"
    /\ ULess(call.line, cap.current_line)
    /\ env.width = 2
    /\ Suffix = Str(<<" ", "1">>)

\* C2: when the bind saw an empty last line, every invocation for last_line that
\* returns has appended `~` right-justified in the width and returns the default
\* line-number style, whatever the mode, the selected flag and the focus flag; any
\* other invocation that returns has emitted a number.
C2_LastLinePlaceholder ==
    Returned("line_number") =>
        /\ KeepsPrior
        /\ IF OnElidedLine
           THEN /\ ShowsGlyph(Suffix, "~", env.width)
                /\ call.ret = SomeStyle(ThemeStyle("ui.linenr"))
           ELSE /\ Suffix # << >>
                /\ IsDigit(Suffix[Len(Suffix)].ch)
                /\ \A i \in 1 .. Len(Suffix) : Suffix[i].ch # "~"

\* The placeholder drawn for a selected line of a focused view in Relative mode,
\* under a theme whose selected style differs from the default one.
C2_Witness ==
    /\ Returned("line_number")
    /\ OnElidedLine
    /\ call.selected /\ env.is_focused
    /\ env.config = "Relative"
    /\ env.theme["ui.linenr.selected"].some
    /\ ThemeStyle("ui.linenr.selected") # ThemeStyle("ui.linenr")
    /\ Suffix = Str(<<" ", "~">>)

\* The breakpoints the bind captured, and the first of them on the queried line.
StoreList == env.store.list

HitLines(marks) == {marks[i].line : i \in 1 .. Len(marks)}

FirstOn(marks, line) ==
    marks[CHOOSE i \in 1 .. Len(marks) :
            /\ marks[i].line = line
            /\ \A j \in 1 .. Len(marks) : marks[j].line = line => i <= j]

\* floor(0.4 * c)
TwoFifths(c) == (4 * c) \div 10

FadedColor(fg) ==
    IF fg.tag = "Rgb"
    THEN [tag |-> "Rgb", r |-> TwoFifths(fg.r), g |-> TwoFifths(fg.g), b |-> TwoFifths(fg.b)]
    ELSE [tag |-> "Gray", r |-> 0, g |-> 0, b |-> 0]

\* The decision table of C3 over the theme the gutter was bound against.
TableStyle(bp) ==
    IF bp.condition /\ bp.log_message
    THEN [ThemeStyle("error") EXCEPT !.mods = @ \cup {"UNDERLINED"}]
    ELSE IF bp.condition /\ ~ bp.log_message THEN ThemeStyle("error")
    ELSE IF ~ bp.condition /\ bp.log_message THEN ThemeStyle("info")
    ELSE ThemeStyle("warning")

\* C3: the style of a breakpoint line is that of the first breakpoint in store order
\* on the line, by the table condition+log -> error underlined, condition -> error,
\* log -> info, neither -> warning; verified or not (an unverified one is faded).
C3_BreakpointTable ==
    (Returned("breakpoints") /\ call.line \in HitLines(StoreList)) =>
        LET bp == FirstOn(StoreList, call.line)
            base == TableStyle(bp)
        IN  /\ call.ret.some
            /\ call.ret.style.mods = base.mods
            /\ call.ret.style.bg = base.bg
            /\ call.ret.style.fg = IF bp.verified THEN base.fg ELSE FadedColor(base.fg)

\* Two breakpoints on the queried line; the first has a condition and a log message
\* and is not verified, the second has neither and is verified.
C3_Witness ==
    /\ Returned("breakpoints")
    /\ Len(StoreList) = 2
    /\ StoreList[1].line = call.line /\ StoreList[2].line = call.line
    /\ StoreList[1].condition /\ StoreList[1].log_message /\ ~ StoreList[1].verified
    /\ ~ StoreList[2].condition /\ ~ StoreList[2].log_message /\ StoreList[2].verified
    /\ "UNDERLINED" \in call.ret.style.mods
    /\ "UNDERLINED" \notin ThemeStyle("error").mods

\* C4: when a diagnostic targets the queried line, the style is that of the first
\* such diagnostic in iteration order: None or Warning -> warning, Error -> error,
\* Info -> info, Hint -> hint; and exactly one filled circle is appended.
C4_DiagnosticFirstMatch ==
    (Returned("diagnostic") /\ call.line \in HitLines(env.diagnostics)) =>
        LET sev == FirstOn(env.diagnostics, call.line).severity
            name == CASE sev \in {"None", "Warning"} -> "warning"
                      [] sev = "Error" -> "error"
                      [] sev = "Info" -> "info"
                      [] sev = "Hint" -> "hint"
        IN  /\ call.ret = SomeStyle(ThemeStyle(name))
            /\ KeepsPrior
            /\ Suffix = Str(<<"U+25CF">>)

\* A Hint before an Error on the queried line: the hint style is returned.
C4_Witness ==
    /\ Returned("diagnostic")
    /\ Len(env.diagnostics) = 2
    /\ env.diagnostics[1] = [line |-> call.line, severity |-> "Hint"]
    /\ env.diagnostics[2] = [line |-> call.line, severity |-> "Error"]
    /\ call.ret = SomeStyle(ThemeStyle("hint"))
    /\ ThemeStyle("hint") # ThemeStyle("error")

\* The theme has every style name the breakpoint gutter requires.
BreakpointThemeOk == \A n \in {"warning", "error", "info"} : env.theme[n].some

\* C5: binding the breakpoint gutter against a document that has a path for which
\* the breakpoint store has no entry succeeds and captures an empty list.
C5_NoEntryBindsEmpty ==
    (kind = "breakpoints" /\ BreakpointThemeOk /\ env.has_path /\ ~ env.store.some) =>
        (status = "bound" /\ cap.breakpoints = << >>)

\* Columns the gutter was allocated.
Allocated == env.width

\* C6 as stated: every invocation of a bound gutter appends the same number of
\* columns, the number it was allocated.
C6_SameColumnsAsAllocated ==
    (status = "bound" /\ call.made) => (KeepsPrior /\ Columns(Suffix) = Allocated)

\* The number a line-number invocation that returns shows: line + 1 or the distance,
\* and 0 where line + 1 has overflowed.
ShownNumber ==
    IF ShowsLinePlusOne /\ call.line = UsizeMax THEN U(0) ELSE ExpectedNumber

\* C6 amended: the diagnostic and breakpoint gutters append one column on a line that
\* has a mark and none on a line that has none; a line-number invocation that
\* returns has appended the allocated width when the number it shows (or `~`) fits
\* in it and the number's own length when it does not, and one that panics has
\* appended nothing.  The selected flag has no part in it.
C6_ColumnsAppended ==
    call.made =>
        /\ KeepsPrior
        /\ Panicked => call.out = call.before
        /\ Returned("diagnostic") =>
              Columns(Suffix) = IF call.line \in HitLines(env.diagnostics) THEN 1 ELSE 0
        /\ Returned("breakpoints") =>
              Columns(Suffix) = IF call.line \in HitLines(StoreList) THEN 1 ELSE 0
        /\ Returned("line_number") =>
              LET shown == IF OnElidedLine THEN 1 ELSE UDigitCount(ShownNumber)
              IN  Columns(Suffix) = IF shown > Allocated THEN shown ELSE Allocated

\* A line number of three digits in a gutter allocated two columns.
C6_Witness ==
    /\ Returned("line_number")
    /\ ~ OnElidedLine
    /\ Allocated = 2
    /\ Columns(Suffix) = 3

\* C7: on a line that is not the elided last line the style an invocation returns is
\* the selected style (ui.linenr.selected, or ui.linenr when the theme has no such
\* entry) exactly when the selected flag and the focus flag are both true, the
\* default style otherwise.
C7_SelectedStyle ==
    (Returned("line_number") /\ ~ OnElidedLine) =>
        LET default == ThemeStyle("ui.linenr")
            select == IF env.theme["ui.linenr.selected"].some
                      THEN ThemeStyle("ui.linenr.selected")
                      ELSE default
        IN  call.ret = SomeStyle(IF call.selected /\ env.is_focused THEN select ELSE default)

\* The selected style returned in Relative mode for a line other than current_line.
C7_Witness ==
    /\ Returned("line_number")
    /\ ~ OnElidedLine
    /\ call.selected /\ env.is_focused
    /\ env.config = "Relative"
    /\ call.line # cap.current_line
    /\ env.theme["ui.linenr.selected"].some
    /\ call.ret.style = ThemeStyle("ui.linenr.selected")
    /\ call.ret.style # ThemeStyle("ui.linenr")

\* C8: a verified breakpoint gets the filled triangle and its base style unchanged;
\* an unverified one gets the hollow ring and its base style with only the
\* foreground replaced: floor(0.4 * c) per channel of an RGB foreground (each in
\* 0..102), Gray for any other or absent foreground.
C8_Fading ==
    (Returned("breakpoints") /\ call.line \in HitLines(StoreList)) =>
        LET bp == FirstOn(StoreList, call.line)
            base == TableStyle(bp)
            got == call.ret.style
        IN  /\ KeepsPrior
            /\ bp.verified => (Suffix = Str(<<"U+25B2">>) /\ got = base)
            /\ ~ bp.verified =>
                  /\ Suffix = Str(<<"U+229A">>)
                  /\ got.bg = base.bg /\ got.mods = base.mods
                  /\ base.fg.tag # "Rgb" => got.fg = [tag |-> "Gray", r |-> 0, g |-> 0, b |-> 0]
                  /\ base.fg.tag = "Rgb" =>
                        /\ got.fg.tag = "Rgb"
                        /\ got.fg.r = TwoFifths(base.fg.r) /\ got.fg.r \in 0 .. 102
                        /\ got.fg.g = TwoFifths(base.fg.g) /\ got.fg.g \in 0 .. 102
                        /\ got.fg.b = TwoFifths(base.fg.b) /\ got.fg.b \in 0 .. 102

\* An unverified breakpoint with a condition only under an error style of
\* RGB(200,50,50): the hollow ring in RGB(80,20,20).
C8_Witness ==
    /\ Returned("breakpoints")
    /\ call.line \in HitLines(StoreList)
    /\ ~ FirstOn(StoreList, call.line).verified
    /\ FirstOn(StoreList, call.line).condition
    /\ ~ FirstOn(StoreList, call.line).log_message
    /\ ThemeStyle("error").fg = [tag |-> "Rgb", r |-> 200, g |-> 50, b |-> 50]
    /\ call.ret.style.fg = [tag |-> "Rgb", r |-> 80, g |-> 20, b |-> 20]
    /\ Suffix = Str(<<"U+229A">>)

\* C9: the diagnostic and breakpoint gutters append text and return a style exactly
\* when the captured collection has an entry on the queried line; otherwise the
\* buffer is as it was passed in and no style is returned.
C9_NothingWithoutMatch ==
    (Returned("diagnostic") \/ Returned("breakpoints")) =>
        LET marks == IF kind = "diagnostic" THEN env.diagnostics ELSE StoreList
            hit == call.line \in HitLines(marks)
        IN  /\ KeepsPrior
            /\ hit <=> call.ret.some
            /\ hit <=> Suffix # << >>
            /\ ~ hit => (call.out = call.before /\ call.ret = NoneStyle)

\* A breakpoint gutter with breakpoints, invoked with the selected flag on a line
\* that has none, the buffer holding text.
C9_Witness ==
    /\ Returned("breakpoints")
    /\ StoreList # << >>
    /\ call.line \notin HitLines(StoreList)
    /\ call.selected
    /\ call.before # << >>
    /\ call.out = call.before

\* The theme lacks a style name the bound gutter requires.
RequiredMissing ==
    \E n \in (CASE kind = "diagnostic" -> {"warning", "error", "info", "hint"}
                [] kind = "line_number" -> {"ui.linenr"}
                [] kind = "breakpoints" -> {"warning", "error", "info"}
                [] OTHER -> {}) : ~ env.theme[n].some

\* C10: binding the breakpoint gutter to a document with no path, or any gutter with
\* a theme that lacks a required name, aborts; once a gutter is bound, every
\* invocation for a line index, of a gutter of a width the compositor allocates,
\* returns: an abort on such inputs happens only in a bind.
C10_AbortsOnlyAtBind ==
    /\ (kind = "breakpoints" /\ ~ env.has_path) => status = "aborted"
    /\ RequiredMissing => status = "aborted"
    /\ (call.made /\ IsLineIndex(call.line) /\ IsGutterWidth(env.width)) => status = "bound"

\* A line-number closure bound in Relative mode has returned for a line beyond
\* last_line and after current_line.
C10_Witness ==
    /\ Returned("line_number")
    /\ IsLineIndex(call.line) /\ IsGutterWidth(env.width)
    /\ env.config = "Relative"
    /\ ULess(cap.last_line, call.line)
    /\ ULess(cap.current_line, call.line)
    /\ call.ret.some

====
